---- MODULE Spec2Model ----
(***************************************************************************)
(* TradingView-to-Telegram signal relay.                                   *)
(*                                                                         *)
(* Webhook side: three request handlers (api/webhook.py on Vercel, app.py  *)
(* on Flask, webhook_handler.py on FastAPI) call save_signal, which talks  *)
(* to the Vercel KV store in separate round trips (exists, set, set), and  *)
(* then send_signal_message, which retries send_message and records the    *)
(* outcome with mark_signal_sent (get, set).  Every await on the store or  *)
(* on Telegram is one step, so that concurrent requests interleave exactly *)
(* where the coroutines can.                                               *)
(*                                                                         *)
(* webhook_handler.py imports save_signal and send_signal_message from     *)
(* top-level modules `database` and `telegram_bot`; they are taken to be   *)
(* the functions of lib/database.py and lib/telegram_bot.py.  One of the   *)
(* three applications is deployed (`app`) and serves every submission.     *)
(*                                                                         *)
(* Email side: api/email_check.py polls the mailbox and notifies Telegram  *)
(* directly (EmailSpec).                                                   *)
(*                                                                         *)
(* Parsers: the two structured parsers (the pydantic TradingViewPayload    *)
(* and lib/validators.py) and the two free-text parsers (api/email_check   *)
(* and lib/email_client) are applied to bounded inputs (ParserSpec).       *)
(* The free-text parsers are also applied to bodies that hold two signals  *)
(* (BodySpec); SearchSpec is EmailSpec on a folder larger than the cap.    *)
(*                                                                         *)
(* Routing and delivery: get_chat_id_for_signal on bounded maps            *)
(* (RouteSpec); send_signal_message with send_with_retry under bounded     *)
(* retry settings (DeliverySpec).                                          *)
(*                                                                         *)
(* Formatting: format_signal_message and _format_telegram_message applied  *)
(* to one record while the wall clock advances (FormatSpec).               *)
(* detect_quote_currency is applied to bounded symbols (QuoteSpec).        *)
(*                                                                         *)
(* Store: the time-to-live of an entry under save_signal and               *)
(* mark_signal_sent with a clock (TtlSpec); the enabled-pairs list under   *)
(* concurrent add_coin_pair / remove_coin_pair calls and the check of      *)
(* process_webhook (PairsSpec).                                            *)
(***************************************************************************)
EXTENDS Integers, Sequences, FiniteSets, TLC

\* ------------------------------------------------------------------ bounds
MaxReqs == 2        \* webhook submissions in one behaviour
MaxFaults == 1      \* store round trips answered with an error
MaxExpiries == 1    \* keys the store expires (TTL elapsed)
MaxMsgs == 2        \* messages in the polled mailbox folder
MaxPolls == 2       \* poll cycles (check_emails runs) in one behaviour
MaxPrice == 3       \* prices of a parser input range over 0..MaxPrice
MaxPad == 1         \* blanks before and after the symbol of a parser input
MaxFound == 6       \* messages in the folder of a search (more than RecentLimit)
MaxClock == 2       \* the wall clock of a formatting run advances MaxClock times
MaxBodies == 2      \* bodies formatted from one record
MaxBase == 2        \* letters before the ending of a symbol handed to detect_quote_currency
MaxTicks == 8       \* times the clock of the store advances (by a second or by a day)
MaxCmds == 2        \* admin commands (add_coin_pair / remove_coin_pair calls) in one behaviour
MaxRetries == 3     \* telegram_max_retries of a delivery ranges over 0..MaxRetries
MaxDelays == 2      \* items of the telegram_retry_delays setting of a delivery

Reqs == 1..MaxReqs
SignalIds == {"BTCUSDT_60_123", "ETHUSDT_60_1", "DOGEUSDT_15_7"}
Handlers == {"vercel", "flask", "fastapi"}
Msgs == 1..MaxMsgs
Polls == 1..MaxPolls

\* ------------------------------------------------------- program constants
telegram_max_retries == 3
idempotency_ttl_days == 7
RecentTtlSeconds == 86400
RecentLimit == 5

Null == "null"

\* --------------------------------------------------------------- variables
VARIABLES
    app,         \* the deployed application: its webhook handler serves every submission
    kv,          \* the KV store: a partial map key -> [value, ex]
    req,         \* per webhook submission: handler, position, locals, response
    faults,      \* store round trips that were answered with an error so far
    expired,     \* keys the store has expired so far
    mailbox,     \* email side: the messages of the polled folder
    poll,        \* email side: the poll cycles (check_emails runs)
    notified,    \* email side: notifications sent to Telegram, per signal_id
    tv_shared_secret,  \* settings: the configured shared secret ("" when not configured)
    input,       \* parsers: the raw input handed to a parser
    parsed       \* parsers: what the parser made of it

parseVars == <<input, parsed>>
vars == <<app, kv, req, faults, expired, mailbox, poll, notified, tv_shared_secret, input, parsed>>
webVars == <<app, kv, req, faults, expired, tv_shared_secret>>
mailVars == <<mailbox, poll, notified, parseVars>>

\* --------------------------------------------------------------- the store
SignalKey(s) == <<"signal", s>>
RecentKey(s) == <<"recent", s>>
Keys == {SignalKey(s) : s \in SignalIds} \cup {RecentKey(s) : s \in SignalIds}

\* VercelKV.set on a 200 answer: the key holds the value, with its expiry.
KvPut(store, k, v, ex) ==
    [x \in DOMAIN store \cup {k} |-> IF x = k THEN [value |-> v, ex |-> ex] ELSE store[x]]

\* TTL deletion of a key by the store.
KvDrop(store, k) == [x \in DOMAIN store \ {k} |-> store[x]]

\* Symbols are strings of characters; the tickers are spelled with two letters.
BTCUSDT == <<"B", "T">>
ETHUSDT == <<"E", "T">>
DOGEUSDT == <<"D", "G">>
Blank == " "

\* str.upper(): lower-case letters become upper-case, every other character stays.
UpperChar(c) ==
    CASE c = "b" -> "B" [] c = "t" -> "T" [] c = "e" -> "E"
      [] c = "d" -> "D" [] c = "g" -> "G" [] c = "u" -> "U"
      [] c = "s" -> "S" [] c = "c" -> "C" [] c = "h" -> "H"
      [] c = "n" -> "N" [] OTHER -> c
Upper(str) == [i \in DOMAIN str |-> UpperChar(str[i])]

\* str.strip(): leading and trailing whitespace is removed.
RECURSIVE LStrip(_)
LStrip(str) == IF str # <<>> /\ Head(str) = Blank THEN LStrip(Tail(str)) ELSE str
RECURSIVE RStrip(_)
RStrip(str) ==
    IF str # <<>> /\ str[Len(str)] = Blank THEN RStrip(SubSeq(str, 1, Len(str) - 1)) ELSE str
Strip(str) == RStrip(LStrip(str))

\* The payload a signal_id stands for (symbol and timeframe of the alert, as
\* the structured parser hands them on).
Payload(s) ==
    CASE s = "BTCUSDT_60_123" -> [symbol |-> BTCUSDT, timeframe |-> "60"]
      [] s = "ETHUSDT_60_1" -> [symbol |-> ETHUSDT, timeframe |-> "60"]
      [] s = "DOGEUSDT_15_7" -> [symbol |-> DOGEUSDT, timeframe |-> "15"]
      [] OTHER -> [symbol |-> <<>>, timeframe |-> ""]

\* The signal_data dict save_signal builds: the payload plus default status.
SignalData(s) ==
    [signal_id |-> s,
     symbol |-> Payload(s).symbol,
     timeframe |-> Payload(s).timeframe,
     telegram_sent |-> FALSE,
     telegram_error |-> Null,
     retry_count |-> 0,
     sent_at_utc |-> Null,
     chat_id |-> Null]

RecentData(s) == [signal_id |-> s]

\* Settings: routing maps (the keys of the symbol map are upper-cased when
\* the settings are loaded) and the default destination.
symbol_chat_map == [x \in {BTCUSDT} |-> "chat_btc"]
tf_chat_map == [x \in {"60"} |-> "chat_1h"]
telegram_chat_id_default == "chat_default"

\* The routing chain of get_chat_id_for_signal over given maps, with the
\* timeframe map consulted first (wrong priority).
Route_TimeframeFirst(symbols, timeframes, default_chat, symbol, timeframe) ==
    IF timeframe \in DOMAIN timeframes THEN timeframes[timeframe]
    ELSE IF Upper(symbol) \in DOMAIN symbols THEN symbols[Upper(symbol)]
    ELSE default_chat

\* The routing chain of get_chat_id_for_signal over given maps and default
\* destination: the symbol is upper-cased, then symbol map, then timeframe
\* map, then default.
Route(symbols, timeframes, default_chat, symbol, timeframe) ==
    IF Upper(symbol) \in DOMAIN symbols THEN symbols[Upper(symbol)]
    ELSE IF timeframe \in DOMAIN timeframes THEN timeframes[timeframe]
    ELSE default_chat

\* Settings.get_chat_id_for_signal.
get_chat_id_for_signal(symbol, timeframe) ==
    Route(symbol_chat_map, tf_chat_map, telegram_chat_id_default, symbol, timeframe)

\* Settings.pairs_list (the default pairs) and get_enabled_pairs: the custom
\* list under config:enabled_pairs when the store holds one, the default
\* pairs otherwise and on any error.  No admin command runs here, so the
\* store holds none.
pairs_list == {BTCUSDT, ETHUSDT}
get_enabled_pairs == pairs_list

TtlSeconds == idempotency_ttl_days * 24 * 60 * 60

\* How a store round trip can be answered: HTTP 200, another status, or an
\* aiohttp.ClientError.  Errors are drawn only while the fault budget lasts.
StoreReplies == IF faults < MaxFaults THEN {"ok", "non200", "connerr"} ELSE {"ok"}
Fault(reply) == IF reply = "ok" THEN faults ELSE faults + 1

\* VercelKV.exists: 200 -> result > 0; any other status -> False;
\* ClientError -> DatabaseError.
KvExists(reply, k) ==
    CASE reply = "ok" -> IF k \in DOMAIN kv THEN "true" ELSE "false"
      [] reply = "connerr" -> "raise"
      [] OTHER -> "false"

\* VercelKV.set: returns status == 200; ClientError -> DatabaseError.
KvSet(reply) ==
    CASE reply = "ok" -> "true"
      [] reply = "connerr" -> "raise"
      [] OTHER -> "false"

\* VercelKV.get: the value for a key the store holds (200), None for a key
\* it does not hold (200 with a null result, or 404); another status or a
\* ClientError -> DatabaseError.
KvGet(reply, k) ==
    CASE reply = "ok" -> IF k \in DOMAIN kv THEN "value" ELSE "none"
      [] OTHER -> "raise"

\* ------------------------------------------------------------ the requests
IdleReq ==
    [handler |-> "none", sid |-> "none", pc |-> "idle", resp |-> "none",
     saved |-> "none", attempts |-> 0, sent |-> "none", delivery |-> "none",
     marked |-> "none", rec |-> SignalData("none"),
     savefault |-> "none", late |-> FALSE, resubmitted |-> FALSE, header |-> "none"]

\* History kept with a submission: `savefault` is the save_signal round trip
\* of this submission that the store answered with an error, `late` says that
\* a delivery of the same signal_id had already returned False on arrival,
\* `resubmitted` that its dedup lookup found no entry after the store had
\* expired the entry of its signal_id, `header` is the X-TV-Secret header it
\* came with (Null when it had none).
Arrive(r, handler, s) ==
    [req[r] EXCEPT !.handler = handler, !.sid = s,
                   !.late = \E o \in Reqs : req[o].sid = s /\ req[o].sent = "false"]

\* A submission the handler turns away before it uses the payload's signal_id.
Reject(r, handler, code) ==
    [req[r] EXCEPT !.handler = handler, !.resp = code, !.pc = "done"]

\* The X-TV-Secret header of a submission: absent, empty, or a value.
HeaderValues == {Null, "", "tv-secret", "default-secret"}

\* The shared secret the settings can hold: not configured, or a value.
SecretSettings == {"", "tv-secret"}

\* The value the header is compared with: settings.tv_shared_secret, and in
\* app.py `settings.tv_shared_secret or "default-secret"`.
ExpectedSecret(handler) ==
    IF handler = "flask" /\ tv_shared_secret = "" THEN "default-secret" ELSE tv_shared_secret

\* The secret check of the handlers: `not tv_secret` -> 401, then
\* secrets.compare_digest(tv_secret, expected).
verify_shared_secret(handler, header) ==
    /\ header # Null
    /\ header # ""
    /\ header = ExpectedSecret(handler)

\* verify_symbol_allowed / process_webhook: symbol in enabled_pairs.
verify_symbol_allowed(symbol) == symbol \in get_enabled_pairs

\* Submissions are numbered in their order of arrival at the deployed handler.
Arrives(r, handler) ==
    /\ app = handler
    /\ req[r].pc = "idle"
    /\ \A o \in Reqs : o < r => req[o].pc # "idle"

NoteFault(q, reply, step) == IF reply = "ok" THEN q ELSE [q EXCEPT !.savefault = step]

Init ==
    /\ app \in Handlers
    /\ kv = [k \in {} |-> Null]
    /\ req = [r \in Reqs |-> IdleReq]
    /\ faults = 0
    /\ expired = {}
    /\ mailbox = <<>>
    /\ poll = <<>>
    /\ notified = [s \in SignalIds |-> 0]
    /\ tv_shared_secret \in SecretSettings
    /\ input = Null
    /\ parsed = Null

\* The module-level name asyncio is bound in app.py and (locally, inside
\* queue_telegram_message) in webhook_handler.py; api/webhook.py imports it
\* only inside default(), so process_webhook's asyncio.create_task raises
\* NameError.
AsyncioBound(handler) == handler # "vercel"

\* The retry loop with an inclusive upper bound (one call too many).
LoopContinues_OffByOne(a) == a + 1 <= telegram_max_retries

\* send_with_retry: `for attempt in range(telegram_max_retries)` has another
\* iteration after the 0-based attempt a.
LoopContinues(a) == a + 1 < telegram_max_retries

\* send_signal_message up to its first await: the route is resolved, the text
\* formatted and send_with_retry entered (its loop body does not run at all
\* when telegram_max_retries = 0).
StartDelivery(q) ==
    IF 0 < telegram_max_retries
    THEN [q EXCEPT !.delivery = "running", !.pc = "send"]
    ELSE [q EXCEPT !.delivery = "running", !.sent = "false", !.pc = "mark_get"]

\* What the calling handler does once save_signal has returned True, returned
\* False or raised DatabaseError, up to its next await.
\*   api/webhook.py process_webhook, app.py process_signal,
\*   webhook_handler.py receive_tradingview_webhook + queue_telegram_message.
AfterSave(q, result) ==
    LET s == [q EXCEPT !.saved = result] IN
    CASE q.handler = "vercel" ->
            IF result = "true"
            THEN IF AsyncioBound(q.handler)
                 THEN StartDelivery([s EXCEPT !.resp = "success"])
                 ELSE [s EXCEPT !.resp = "500", !.pc = "done"]
            ELSE IF result = "false"
            THEN [s EXCEPT !.resp = "duplicate", !.pc = "done"]
            ELSE [s EXCEPT !.resp = "500", !.pc = "done"]
      [] q.handler = "flask" ->
            IF result = "true" THEN StartDelivery(s) ELSE [s EXCEPT !.pc = "done"]
      [] OTHER ->
            IF result = "true"
            THEN StartDelivery([s EXCEPT !.resp = "success"])
            ELSE IF result = "false"
            THEN [s EXCEPT !.resp = "duplicate", !.pc = "done"]
            ELSE [s EXCEPT !.resp = "500", !.pc = "done"]

\* A submission arrives: the handler checks the secret and the payload, then
\* process_webhook looks the symbol up in the enabled pairs and enters
\* save_signal.  api/webhook.py default + process_webhook.
default(r) ==
    /\ Arrives(r, "vercel")
    /\ \E s \in SignalIds, header \in HeaderValues, valid \in BOOLEAN :
         LET q == [Arrive(r, "vercel", s) EXCEPT !.header = header]
             no == [Reject(r, "vercel", "400") EXCEPT !.header = header] IN
         req' = [req EXCEPT ![r] =
                   IF ~verify_shared_secret("vercel", header) THEN [no EXCEPT !.resp = "401"]
                   ELSE IF ~valid THEN no
                   ELSE IF ~verify_symbol_allowed(Payload(s).symbol)
                   THEN [q EXCEPT !.resp = "400", !.pc = "done"]
                   ELSE [q EXCEPT !.pc = "exists"]]
    /\ UNCHANGED <<app, tv_shared_secret, kv, faults, expired, mailVars>>

\* app.py webhook: answers success as soon as the thread running
\* process_signal is started; the enabled pairs are not looked up.
webhook(r) ==
    /\ Arrives(r, "flask")
    /\ \E s \in SignalIds, header \in HeaderValues, valid \in BOOLEAN :
         LET q == [Arrive(r, "flask", s) EXCEPT !.header = header]
             no == [Reject(r, "flask", "400") EXCEPT !.header = header] IN
         req' = [req EXCEPT ![r] =
                   IF ~verify_shared_secret("flask", header) THEN [no EXCEPT !.resp = "401"]
                   ELSE IF ~valid THEN no
                   ELSE [q EXCEPT !.resp = "success", !.pc = "exists"]]
    /\ UNCHANGED <<app, tv_shared_secret, kv, faults, expired, mailVars>>

\* webhook_handler.py receive_tradingview_webhook: the framework validates the
\* payload model first (422), then the secret, then the enabled pairs.
receive_tradingview_webhook(r) ==
    /\ Arrives(r, "fastapi")
    /\ \E s \in SignalIds, header \in HeaderValues, valid \in BOOLEAN :
         LET q == [Arrive(r, "fastapi", s) EXCEPT !.header = header]
             no == [Reject(r, "fastapi", "422") EXCEPT !.header = header] IN
         req' = [req EXCEPT ![r] =
                   IF ~valid THEN no
                   ELSE IF ~verify_shared_secret("fastapi", header) THEN [no EXCEPT !.resp = "401"]
                   ELSE IF ~verify_symbol_allowed(Payload(s).symbol)
                   THEN [q EXCEPT !.resp = "400", !.pc = "done"]
                   ELSE [q EXCEPT !.pc = "exists"]]
    /\ UNCHANGED <<app, tv_shared_secret, kv, faults, expired, mailVars>>

\* save_signal, first round trip: kv.exists("signal:<id>").
save_signal_exists(r) ==
    /\ req[r].pc = "exists"
    /\ \E reply \in StoreReplies :
         LET existing == KvExists(reply, SignalKey(req[r].sid))
             q == NoteFault(req[r], reply, "exists") IN
         /\ faults' = Fault(reply)
         /\ req' = [req EXCEPT ![r] =
                      IF existing = "true" THEN AfterSave(q, "false")
                      ELSE IF existing = "raise" THEN AfterSave(q, "raise")
                      ELSE [q EXCEPT !.pc = "set_signal",
                                     !.resubmitted = reply = "ok" /\ SignalKey(q.sid) \in expired]]
    /\ UNCHANGED <<app, tv_shared_secret, kv, expired, mailVars>>

\* save_signal, second round trip: kv.set("signal:<id>", record, ex=ttl).
\* The returned status flag is not looked at.
save_signal_set(r) ==
    /\ req[r].pc = "set_signal"
    /\ \E reply \in StoreReplies :
         LET done == KvSet(reply)
             s == req[r].sid
             q == NoteFault(req[r], reply, "set") IN
         /\ faults' = Fault(reply)
         /\ kv' = IF done = "true"
                  THEN KvPut(kv, SignalKey(s), SignalData(s), TtlSeconds)
                  ELSE kv
         /\ req' = [req EXCEPT ![r] =
                      IF done = "raise" THEN AfterSave(q, "raise")
                      ELSE [q EXCEPT !.pc = "set_recent"]]
    /\ UNCHANGED <<app, tv_shared_secret, expired, mailVars>>

\* save_signal, third round trip: kv.set("recent:<id>", ..., ex=86400), then
\* return True.
save_signal_set_recent(r) ==
    /\ req[r].pc = "set_recent"
    /\ \E reply \in StoreReplies :
         LET done == KvSet(reply)
             s == req[r].sid
             q == NoteFault(req[r], reply, "recent") IN
         /\ faults' = Fault(reply)
         /\ kv' = IF done = "true"
                  THEN KvPut(kv, RecentKey(s), RecentData(s), RecentTtlSeconds)
                  ELSE kv
         /\ req' = [req EXCEPT ![r] =
                      IF done = "raise" THEN AfterSave(q, "raise")
                      ELSE AfterSave(q, "true")]
    /\ UNCHANGED <<app, tv_shared_secret, expired, mailVars>>

\* send_with_retry: one send_message call; it succeeds or raises TelegramError.
send_with_retry(r) ==
    /\ req[r].pc = "send"
    /\ \E ok \in BOOLEAN :
         LET a == req[r].attempts
             q == [req[r] EXCEPT !.attempts = a + 1] IN
         req' = [req EXCEPT ![r] =
                   IF ok THEN [q EXCEPT !.sent = "true", !.pc = "mark_get"]
                   ELSE IF LoopContinues(a) THEN q
                   ELSE [q EXCEPT !.sent = "false", !.pc = "mark_get"]]
    /\ UNCHANGED <<app, tv_shared_secret, kv, faults, expired, mailVars>>

\* mark_signal_sent's update of the record it read.
MarkUpdate(rec, chat_id, error) ==
    IF error # Null
    THEN [rec EXCEPT !.telegram_error = error, !.retry_count = rec.retry_count + 1]
    ELSE [rec EXCEPT !.telegram_sent = TRUE, !.sent_at_utc = "set", !.chat_id = chat_id]

\* The error argument send_signal_message passes to mark_signal_sent.
MarkError(sent) == IF sent = "true" THEN Null ELSE "Failed after all retries"

\* mark_signal_sent, first round trip: kv.get("signal:<id>").
mark_signal_sent_get(r) ==
    /\ req[r].pc = "mark_get"
    /\ \E reply \in StoreReplies :
         LET k == SignalKey(req[r].sid)
             got == KvGet(reply, k) IN
         /\ faults' = Fault(reply)
         /\ req' = [req EXCEPT ![r] =
                      CASE got = "value" -> [req[r] EXCEPT !.rec = kv[k].value, !.pc = "mark_set"]
                        [] got = "none" ->
                             [req[r] EXCEPT !.marked = "false", !.delivery = "returned", !.pc = "done"]
                        [] OTHER ->
                             [req[r] EXCEPT !.marked = "raised", !.delivery = "raised", !.pc = "done"]]
    /\ UNCHANGED <<app, tv_shared_secret, kv, expired, mailVars>>

\* mark_signal_sent, second round trip: kv.set of the updated record with a
\* fresh ttl, then return True (the status flag of set is not looked at).
mark_signal_sent_set(r) ==
    /\ req[r].pc = "mark_set"
    /\ \E reply \in StoreReplies :
         LET done == KvSet(reply)
             s == req[r].sid
             p == Payload(s)
             chat_id == get_chat_id_for_signal(p.symbol, p.timeframe)
             updated == MarkUpdate(req[r].rec, chat_id, MarkError(req[r].sent)) IN
         /\ faults' = Fault(reply)
         /\ kv' = IF done = "true" THEN KvPut(kv, SignalKey(s), updated, TtlSeconds) ELSE kv
         /\ req' = [req EXCEPT ![r] =
                      IF done = "raise"
                      THEN [req[r] EXCEPT !.marked = "raised", !.delivery = "raised", !.pc = "done"]
                      ELSE [req[r] EXCEPT !.marked = "true", !.delivery = "returned", !.pc = "done",
                                          !.rec = SignalData("none")]]
    /\ UNCHANGED <<app, tv_shared_secret, expired, mailVars>>

\* The store deletes a key whose time-to-live has elapsed.
kv_expire(k) ==
    /\ k \in DOMAIN kv
    /\ k \notin expired
    /\ Cardinality(expired) < MaxExpiries
    /\ kv' = KvDrop(kv, k)
    /\ expired' = expired \cup {k}
    /\ UNCHANGED <<app, tv_shared_secret, req, faults, mailVars>>

Next ==
    \/ \E r \in Reqs : default(r)
    \/ \E r \in Reqs : webhook(r)
    \/ \E r \in Reqs : receive_tradingview_webhook(r)
    \/ \E r \in Reqs : save_signal_exists(r)
    \/ \E r \in Reqs : save_signal_set(r)
    \/ \E r \in Reqs : save_signal_set_recent(r)
    \/ \E r \in Reqs : send_with_retry(r)
    \/ \E r \in Reqs : mark_signal_sent_get(r)
    \/ \E r \in Reqs : mark_signal_sent_set(r)
    \/ \E k \in Keys : kv_expire(k)

Spec == Init /\ [][Next]_vars

\* ---------------------------------------------------------- the email side
\* api/email_check.py.  A message is what the parser makes of its body
\* (`parsed`: the signal_id of the record _parse_signal_content returns, or
\* "none" when it returns None or the body is missing) and its \Seen flag.
\* The signal_ids the messages of the folder carry:
MailSignalIds == {"BTCUSDT_60_123", "ETHUSDT_60_1"}

\* `total` is the number of messages the search selected, `visited` how many
\* of them the loop has taken up.
IdlePoll == [pc |-> "idle", ids |-> <<>>, status |-> "none", total |-> 0, visited |-> 0]

EmailInit ==
    /\ app = "vercel"
    /\ kv = [k \in {} |-> Null]
    /\ req = [r \in Reqs |-> IdleReq]
    /\ faults = 0
    /\ expired = {}
    /\ mailbox \in [Msgs -> [parsed : MailSignalIds \cup {"none"}, seen : {FALSE}]]
    /\ poll = [p \in Polls |-> IdlePoll]
    /\ notified = [s \in SignalIds |-> 0]
    /\ tv_shared_secret = "tv-secret"
    /\ input = Null
    /\ parsed = Null

\* The message ids of a set, in ascending order (IMAP SEARCH order).
RECURSIVE Ascending(_)
Ascending(S) ==
    IF S = {} THEN <<>>
    ELSE LET m == CHOOSE x \in S : \A y \in S : x <= y IN <<m>> \o Ascending(S \ {m})

\* recent_ids[:5]
Prefix(seq, n) == IF Len(seq) <= n THEN seq ELSE SubSeq(seq, 1, n)

\* check_emails, search: UNSEEN first; when that is empty, the SINCE search,
\* cut to its first RecentLimit ids.
EmailIds(box) ==
    LET unseen == Ascending({m \in DOMAIN box : ~box[m].seen})
        recent == Ascending(DOMAIN box) IN
    IF unseen # <<>> THEN unseen ELSE Prefix(recent, RecentLimit)

\* check_emails up to the message loop: connect, login, select, search.
\* The cycles are numbered in the order in which they start.
check_emails(p) ==
    /\ poll[p].pc = "idle"
    /\ \A o \in Polls : o < p => poll[o].pc # "idle"
    /\ \E imap_ok \in BOOLEAN :
         poll' = [poll EXCEPT ![p] =
                    IF ~imap_ok THEN [@ EXCEPT !.pc = "done", !.status = "error"]
                    ELSE IF EmailIds(mailbox) = <<>>
                    THEN [@ EXCEPT !.pc = "done", !.status = "ok"]
                    ELSE [@ EXCEPT !.pc = "loop", !.ids = EmailIds(mailbox),
                                   !.total = Len(EmailIds(mailbox))]]
    /\ UNCHANGED <<mailbox, notified, webVars, parseVars>>

\* _process_signal: formats the message and posts it to Telegram; nothing is
\* looked up or recorded anywhere before the post.
ProcessSignal(sent, s, telegram_ok) ==
    IF telegram_ok THEN [sent EXCEPT ![s] = @ + 1] ELSE sent

\* The loop gives up the rest of the cycle when a message failed.
NextIds_AbortOnFailure(ids, failure) == IF failure THEN <<>> ELSE Tail(ids)

\* The ids left for the loop after one message: `continue` and the
\* per-message except clause both go on with the next id.
NextIds(ids, failure) == Tail(ids)

\* One iteration of the message loop: fetch (answered OK, answered otherwise,
\* or raising), parse, _process_signal (which catches every error of the
\* post), and the \Seen flag when a record was parsed (mail.store may raise).
\* An exception anywhere in the body is caught by the per-message except
\* clause.  The FETCH of RFC822 may itself set \Seen (server side).
check_emails_message(p) ==
    /\ poll[p].pc = "loop"
    /\ poll[p].ids # <<>>
    /\ \E fetch \in {"ok", "no", "raise"}, fetch_sets_seen \in BOOLEAN,
          telegram_ok \in BOOLEAN, store_ok \in BOOLEAN :
         LET m == Head(poll[p].ids)
             s == mailbox[m].parsed
             handled == fetch = "ok" /\ s # "none"
             raised == fetch = "raise" \/ (handled /\ ~store_ok)
             failure == fetch # "ok" \/ s = "none" \/ ~telegram_ok \/ raised IN
         \* inputs that are not looked at are left at one value
         /\ fetch # "ok" => ~fetch_sets_seen
         /\ ~handled => telegram_ok /\ store_ok
         /\ (handled /\ store_ok) => ~fetch_sets_seen
         /\ poll' = [poll EXCEPT ![p].ids = NextIds(@, failure), ![p].visited = @ + 1]
         /\ notified' = IF handled THEN ProcessSignal(notified, s, telegram_ok) ELSE notified
         /\ mailbox' = IF fetch = "ok" /\ ((handled /\ store_ok) \/ fetch_sets_seen)
                       THEN [mailbox EXCEPT ![m].seen = TRUE]
                       ELSE mailbox
    /\ UNCHANGED <<webVars, parseVars>>

\* check_emails after the loop: close, logout, the summary.
check_emails_close(p) ==
    /\ poll[p].pc = "loop"
    /\ poll[p].ids = <<>>
    /\ poll' = [poll EXCEPT ![p].pc = "done", ![p].status = "ok"]
    /\ UNCHANGED <<mailbox, notified, webVars, parseVars>>

EmailNext ==
    \/ \E p \in Polls : check_emails(p)
    \/ \E p \in Polls : check_emails_message(p)
    \/ \E p \in Polls : check_emails_close(p)

EmailSpec == EmailInit /\ [][EmailNext]_vars

\* The poll cycles over a folder of up to MaxFound messages, all unread at
\* first and none of them a signal.
SearchInit ==
    /\ app = "vercel"
    /\ kv = [k \in {} |-> Null]
    /\ req = [r \in Reqs |-> IdleReq]
    /\ faults = 0
    /\ expired = {}
    /\ mailbox \in {[m \in 1..n |-> [parsed |-> "none", seen |-> FALSE]] : n \in 0..MaxFound}
    /\ poll = [p \in Polls |-> IdlePoll]
    /\ notified = [s \in SignalIds |-> 0]
    /\ tv_shared_secret = "tv-secret"
    /\ input = Null
    /\ parsed = Null

SearchSpec == SearchInit /\ [][EmailNext]_vars

\* ------------------------------------------------------------- the parsers
\* A field of a raw input (a key of the JSON payload, a key:value segment of
\* the email line): present or not, with its value.  A numeric field holds a
\* JSON number, a string that spells a number (every value of the email line
\* is one or is not), or a string that spells none.
NoText == [present |-> FALSE, value |-> ""]
Text(s) == [present |-> TRUE, value |-> s]
NoSymbol == [present |-> FALSE, value |-> <<>>]
Symbol(str) == [present |-> TRUE, value |-> str]
NoNumber == [present |-> FALSE, type |-> "none", val |-> 0]
Num(n) == [present |-> TRUE, type |-> "number", val |-> n]
Quoted(n) == [present |-> TRUE, type |-> "numeral", val |-> n]
Junk == [present |-> TRUE, type |-> "text", val |-> 0]

\* Spellings of a symbol: any letter in lower case, blanks before and after.
LowerChar(c) ==
    CASE c = "B" -> "b" [] c = "T" -> "t" [] c = "E" -> "e"
      [] c = "D" -> "d" [] c = "G" -> "g" [] c = "U" -> "u"
      [] c = "S" -> "s" [] c = "C" -> "c" [] c = "H" -> "h"
      [] c = "N" -> "n" [] OTHER -> c
Cased(str, mask) == [i \in DOMAIN str |-> IF mask[i] THEN LowerChar(str[i]) ELSE str[i]]
RECURSIVE Blanks(_)
Blanks(n) == IF n = 0 THEN <<>> ELSE <<Blank>> \o Blanks(n - 1)
Spellings(str) ==
    {Blanks(l) \o Cased(str, mask) \o Blanks(r) :
        l \in 0..MaxPad, r \in 0..MaxPad, mask \in [DOMAIN str -> BOOLEAN]}

\* Settings.timeframes_list (supported_timeframes) and the allowed events.
timeframes_list == {"5", "15", "60", "240", "D"}
allowed_events == {"EMA_BOUNCE_BUY"}

\* The secret lib/email_client.py compares the `secret` field with.
EmailClientSecret == "walid-ema-bounce-2025"

\* Raw inputs.  `source` tells the channel; a webhook payload has no action,
\* secret or tail, an email line has no event or bar_time; its `timeframe`
\* is the value of the key tf, and `tail` are the keys that stand after the
\* secret segment on the line.
ValidPayload ==
    [source |-> "webhook", action |-> NoText, event |-> Text("EMA_BOUNCE_BUY"),
     symbol |-> Symbol(BTCUSDT), timeframe |-> Text("60"), bar_time |-> Num(1),
     entry |-> Num(2), stop |-> Num(1), target |-> Num(3), rr |-> Num(2),
     signal_id |-> Text("BTCUSDT_60_123"), secret |-> NoText, tail |-> {}]

PriceValues == {NoNumber, Junk, Quoted(2)} \cup {Num(n) : n \in 0..MaxPrice}
EmailPriceValues == {NoNumber, Junk} \cup {Quoted(n) : n \in 0..MaxPrice}

WebhookPayloads ==
    [source : {"webhook"}, action : {NoText},
     event : {NoText, Text("EMA_BOUNCE_BUY"), Text("EMA_BOUNCE_SELL")},
     symbol : {NoSymbol, Symbol(BTCUSDT)},
     timeframe : {NoText, Text("60"), Text("7")},
     bar_time : {NoNumber, Num(1)},
     entry : PriceValues, stop : PriceValues, target : PriceValues,
     rr : {NoNumber, Junk, Num(0), Num(2)},
     signal_id : {NoText, Text("BTCUSDT_60_123")},
     secret : {NoText}, tail : {{}}]

SymbolPayloads ==
    {[ValidPayload EXCEPT !.symbol = Symbol(x)] : x \in Spellings(BTCUSDT) \cup Spellings(DOGEUSDT)}

EmailLines ==
    [source : {"email"}, action : {NoText, Text("ENTRY")}, event : {NoText},
     symbol : {NoSymbol, Symbol(BTCUSDT)},
     timeframe : {NoText, Text("60")},
     bar_time : {NoNumber},
     entry : EmailPriceValues, stop : EmailPriceValues, target : EmailPriceValues,
     rr : {NoNumber, Junk, Quoted(2)},
     signal_id : {NoText, Text("BTCUSDT_60_123")},
     secret : {NoText, Text("tv-secret"), Text(EmailClientSecret), Text("wrong")},
     tail : {{}, {"signal_id"}}]

\* What a parser returns: a record, or nothing (ValidationError / None).
NoRecord ==
    [event |-> NoText, symbol |-> NoSymbol, timeframe |-> NoText, tf |-> NoText,
     bar_time |-> NoNumber, entry |-> NoNumber, stop |-> NoNumber, target |-> NoNumber,
     rr |-> NoNumber, signal_id |-> NoText]
Rejected == [ok |-> FALSE, rec |-> NoRecord]
Emitted(rec) == [ok |-> TRUE, rec |-> rec]
NotParsed == [by |-> "none", ok |-> FALSE, rec |-> NoRecord, then |-> "none"]

\* What the caller does with the parser's result: the webhook handlers go on
\* to save_signal or answer the validation error, check_emails calls
\* _process_signal or goes to the next message, EmailClient._process_email
\* returns the record or None.
Caller(by, ok) ==
    CASE by \in {"TradingViewPayload", "validate_tradingview_payload"} ->
            IF ok THEN "save_signal" ELSE "validation error"
      [] by = "EmailProcessor" -> IF ok THEN "_process_signal" ELSE "next message"
      [] OTHER -> IF ok THEN "return record" ELSE "return None"

\* The keys of the payload without signal_id.
required_fields_NoSignalId ==
    {"event", "symbol", "timeframe", "bar_time", "entry", "stop", "target", "rr"}

\* The nine keys of the payload.
required_fields ==
    {"event", "symbol", "timeframe", "bar_time", "entry", "stop", "target", "rr", "signal_id"}

\* Normalization without the trimming.
NormalizeSymbol_NoStrip(str) == Upper(str)

\* v.upper().strip()
NormalizeSymbol(str) == Strip(Upper(str))

\* float(...) of pydantic and of the email parsers: a number or a string that
\* spells one converts, anything else raises.
Converts(f) == f.present /\ f.type \in {"number", "numeral"}
Float(f) == Num(f.val)

\* pydantic TradingViewPayload (api/webhook.py, webhook_handler.py): every
\* field required, floats coerced and > 0, the validators of symbol,
\* timeframe, event, stop and target.
TradingViewPayload(p) ==
    IF /\ \A k \in required_fields : p[k].present
       /\ p.event.value \in allowed_events
       /\ p.timeframe.value \in timeframes_list
       /\ p.bar_time.type = "number"
       /\ \A k \in {"entry", "stop", "target", "rr"} : Converts(p[k]) /\ p[k].val > 0
       /\ ~(p.stop.val >= p.entry.val)
       /\ ~(p.target.val <= p.entry.val)
    THEN Emitted([NoRecord EXCEPT
             !.event = p.event, !.symbol = Symbol(NormalizeSymbol(p.symbol.value)),
             !.timeframe = p.timeframe, !.bar_time = p.bar_time,
             !.entry = Float(p.entry), !.stop = Float(p.stop), !.target = Float(p.target),
             !.rr = Float(p.rr), !.signal_id = p.signal_id])
    ELSE Rejected

\* lib/validators.py validate_tradingview_payload (app.py): the nine keys,
\* entry/stop/target instances of int or float and > 0, stop < entry < target,
\* the event; rr, timeframe and bar_time are handed on as they came.
validate_tradingview_payload(p) ==
    IF /\ \A k \in required_fields : p[k].present
       /\ \A k \in {"entry", "stop", "target"} : p[k].type = "number" /\ ~(p[k].val <= 0)
       /\ ~(p.stop.val >= p.entry.val)
       /\ ~(p.target.val <= p.entry.val)
       /\ p.event.value \in allowed_events
    THEN Emitted([NoRecord EXCEPT
             !.event = p.event, !.symbol = Symbol(NormalizeSymbol(p.symbol.value)),
             !.timeframe = p.timeframe, !.bar_time = p.bar_time,
             !.entry = p.entry, !.stop = p.stop, !.target = p.target,
             !.rr = p.rr, !.signal_id = p.signal_id])
    ELSE Rejected

\* The keys of an email line.
EmailKeys == {"action", "symbol", "timeframe", "entry", "stop", "target", "rr", "signal_id", "secret"}

\* api/email_check.py EmailProcessor._parse_signal_content: the line is what
\* the pattern action:ENTRY|...secret:<value> matches (it ends with the
\* secret segment); the eight required keys; float() of the four numbers.
\* The value of secret is not looked at.
EmailProcessor_parse_signal_content(b) ==
    LET seen == {k \in EmailKeys : b[k].present /\ k \notin b.tail} IN
    IF /\ b.action.present /\ b.secret.present
       /\ {"action", "symbol", "timeframe", "entry", "stop", "target", "rr", "signal_id"} \subseteq seen
       /\ \A k \in {"entry", "stop", "target", "rr"} : Converts(b[k])
    THEN Emitted([NoRecord EXCEPT
             !.event = Text("EMA_BOUNCE_BUY"), !.symbol = b.symbol,
             !.timeframe = b.timeframe, !.bar_time = Num(1),
             !.entry = Float(b.entry), !.stop = Float(b.stop), !.target = Float(b.target),
             !.rr = Float(b.rr), !.signal_id = b.signal_id])
    ELSE Rejected

\* lib/email_client.py EmailClient._parse_signal_content: the whole line; the
\* nine required keys; the secret compared with a literal; float() of the
\* four numbers.  The record keeps the key tf.
EmailClient_parse_signal_content(b) ==
    IF /\ b.action.present
       /\ \A k \in EmailKeys : b[k].present
       /\ b.secret.value = EmailClientSecret
       /\ \A k \in {"entry", "stop", "target", "rr"} : Converts(b[k])
    THEN Emitted([NoRecord EXCEPT
             !.event = Text("EMA_BOUNCE_BUY"), !.symbol = b.symbol,
             !.tf = b.timeframe,
             !.entry = Float(b.entry), !.stop = Float(b.stop), !.target = Float(b.target),
             !.rr = Float(b.rr), !.signal_id = b.signal_id])
    ELSE Rejected

ParserInit ==
    /\ app = "vercel"
    /\ kv = [k \in {} |-> Null]
    /\ req = [r \in Reqs |-> IdleReq]
    /\ faults = 0
    /\ expired = {}
    /\ mailbox = <<>>
    /\ poll = <<>>
    /\ notified = [s \in SignalIds |-> 0]
    /\ tv_shared_secret = "tv-secret"
    /\ input \in WebhookPayloads \cup SymbolPayloads \cup EmailLines
    /\ parsed = NotParsed

Parse(by, result) ==
    /\ parsed.by = "none"
    /\ parsed' = [by |-> by, ok |-> result.ok, rec |-> result.rec, then |-> Caller(by, result.ok)]
    /\ UNCHANGED <<webVars, mailbox, poll, notified, input>>

\* default / receive_tradingview_webhook: payload = TradingViewPayload(**body)
parse_TradingViewPayload ==
    input.source = "webhook" /\ Parse("TradingViewPayload", TradingViewPayload(input))

\* app.py webhook: validated_payload = validate_tradingview_payload(payload)
parse_validate_tradingview_payload ==
    input.source = "webhook"
    /\ Parse("validate_tradingview_payload", validate_tradingview_payload(input))

\* check_emails: signal_data = self._parse_signal_content(body)
parse_EmailProcessor ==
    input.source = "email" /\ Parse("EmailProcessor", EmailProcessor_parse_signal_content(input))

\* EmailClient._process_email: signal_data = self._parse_signal_content(body)
parse_EmailClient ==
    input.source = "email" /\ Parse("EmailClient", EmailClient_parse_signal_content(input))

ParserNext ==
    \/ parse_TradingViewPayload
    \/ parse_validate_tradingview_payload
    \/ parse_EmailProcessor
    \/ parse_EmailClient

ParserSpec == ParserInit /\ [][ParserNext]_vars


\* ------------------------------------------------- bodies with two signals
\* An email body that holds two signal-shaped substrings, each starting with
\* action:ENTRY| , the second one on the next line or, after a blank, on the
\* same line.  The two carry different values in every field.
FirstSignal ==
    [source |-> "email", action |-> Text("ENTRY"), event |-> NoText,
     symbol |-> Symbol(BTCUSDT), timeframe |-> Text("60"), bar_time |-> NoNumber,
     entry |-> Quoted(2), stop |-> Quoted(1), target |-> Quoted(3), rr |-> Quoted(2),
     signal_id |-> Text("BTCUSDT_60_123"), secret |-> Text(EmailClientSecret), tail |-> {}]
SecondSignal ==
    [source |-> "email", action |-> Text("ENTRY"), event |-> NoText,
     symbol |-> Symbol(ETHUSDT), timeframe |-> Text("240"), bar_time |-> NoNumber,
     entry |-> Quoted(5), stop |-> Quoted(4), target |-> Quoted(6), rr |-> Quoted(1),
     signal_id |-> Text("ETHUSDT_60_1"), secret |-> Text("tv-secret"), tail |-> {}]

FirstSubstrings ==
    {l \in {[FirstSignal EXCEPT !.rr = r, !.signal_id = s, !.secret = c, !.tail = tl] :
                r \in {NoNumber, FirstSignal.rr}, s \in {NoText, FirstSignal.signal_id},
                c \in {NoText, FirstSignal.secret}, tl \in {{}, {"signal_id"}}} :
        l.tail # {} => l.secret.present /\ l.signal_id.present}
SecondSubstrings ==
    {[SecondSignal EXCEPT !.symbol = y, !.signal_id = s, !.secret = c] :
        y \in {NoSymbol, SecondSignal.symbol}, s \in {NoText, SecondSignal.signal_id},
        c \in {NoText, SecondSignal.secret, FirstSignal.secret}}
Bodies ==
    [source : {"body"}, first : FirstSubstrings, second : SecondSubstrings,
     joint : {"newline", "space"}]

\* The order of the segments on a line; the keys of `tail` stand after the
\* secret.
LineOrder == <<"action", "symbol", "timeframe", "entry", "stop", "target", "rr", "signal_id", "secret">>
LastKey(l) ==
    IF l.tail # {} THEN CHOOSE k \in l.tail : TRUE
    ELSE LineOrder[CHOOSE i \in DOMAIN LineOrder :
                      /\ l[LineOrder[i]].present
                      /\ \A j \in DOMAIN LineOrder : j > i => ~l[LineOrder[j]].present]

\* The last segment of the first substring runs into the marker of the
\* second: its value is followed by `action:ENTRY` (after the blank, or
\* directly once the line break is removed).
Glued(k, f) == IF k \in {"entry", "stop", "target", "rr"} THEN Junk ELSE Text("glued")

\* signal_data built from the segments of both substrings on one line
\* (split on `|`, then `signal_data[key] = value` for each segment): a key of
\* the second substring replaces the same key of the first.
Merged(first, second) ==
    [k \in DOMAIN first |->
        IF k = "source" THEN "email"
        ELSE IF k = "tail" THEN {}
        ELSE IF k \in {"action", "event", "bar_time"} THEN first[k]
        ELSE IF second[k].present THEN second[k]
        ELSE IF k = LastKey(first) THEN Glued(k, first[k])
        ELSE first[k]]

\* EmailProcessor._parse_signal_content on such a body: line breaks are
\* removed first, then the pattern runs from the first action:ENTRY| to the
\* first secret:<value>, in whichever substring that is.
EmailProcessor_parse_body(body) ==
    IF body.first.secret.present
    THEN EmailProcessor_parse_signal_content(body.first)
    ELSE EmailProcessor_parse_signal_content(Merged(body.first, body.second))

\* EmailClient._parse_signal_content on such a body: the pattern runs from
\* the first action:ENTRY| to the end of the line.
EmailClient_parse_body(body) ==
    IF body.joint = "newline"
    THEN EmailClient_parse_signal_content(body.first)
    ELSE EmailClient_parse_signal_content(Merged(body.first, body.second))

BodyInit ==
    /\ app = "vercel"
    /\ kv = [k \in {} |-> Null]
    /\ req = [r \in Reqs |-> IdleReq]
    /\ faults = 0
    /\ expired = {}
    /\ mailbox = <<>>
    /\ poll = <<>>
    /\ notified = [s \in SignalIds |-> 0]
    /\ tv_shared_secret = "tv-secret"
    /\ input \in Bodies
    /\ parsed = NotParsed

parse_body_EmailProcessor == Parse("EmailProcessor", EmailProcessor_parse_body(input))
parse_body_EmailClient == Parse("EmailClient", EmailClient_parse_body(input))

BodyNext ==
    \/ parse_body_EmailProcessor
    \/ parse_body_EmailClient

BodySpec == BodyInit /\ [][BodyNext]_vars



\* ------------------------------------------------------ the quote currency
\* lib/formatters.py detect_quote_currency.  Symbols and quote currencies are
\* strings of characters, spelled out.
USDT == <<"U", "S", "D", "T">>
BUSD == <<"B", "U", "S", "D">>
USDC == <<"U", "S", "D", "C">>
BTC == <<"B", "T", "C">>
ETH == <<"E", "T", "H">>
BNB == <<"B", "N", "B">>
USD == <<"U", "S", "D">>

\* The list with the shortest quote in front (wrong order).
quote_currencies_ShortFirst == <<USD, USDT, BUSD, USDC, BTC, ETH, BNB>>

\* quote_currencies, in the order of the source.
quote_currencies == <<USDT, BUSD, USDC, BTC, ETH, BNB, USD>>

\* str.endswith
EndsWith(str, suffix) ==
    /\ Len(suffix) <= Len(str)
    /\ SubSeq(str, Len(str) - Len(suffix) + 1, Len(str)) = suffix

\* for quote in quote_currencies: if symbol.endswith(quote): return quote;
\* after the loop: return "USDT".
RECURSIVE FirstSuffix(_, _)
FirstSuffix(symbol, quotes) ==
    IF quotes = <<>> THEN USDT
    ELSE IF EndsWith(symbol, Head(quotes)) THEN Head(quotes)
    ELSE FirstSuffix(symbol, Tail(quotes))

detect_quote_currency(symbol) == FirstSuffix(Upper(symbol), quote_currencies)

\* Symbols handed to detect_quote_currency: up to MaxBase letters followed by
\* a known quote or by another ending, in upper or in lower case.
RECURSIVE Words(_, _)
Words(letters, n) ==
    IF n = 0 THEN {<<>>}
    ELSE Words(letters, n - 1) \cup {w \o <<c>> : w \in Words(letters, n - 1), c \in letters}
Lower(str) == [i \in DOMAIN str |-> LowerChar(str[i])]
QuoteEndings ==
    {quote_currencies[i] : i \in DOMAIN quote_currencies} \cup {<<>>, <<"U", "S">>, <<"E", "U", "R">>}
QuoteSymbols ==
    {b \o e : b \in Words({"B", "X", "t"}, MaxBase),
              e \in QuoteEndings \cup {Lower(x) : x \in QuoteEndings}}

NotDetected == [done |-> FALSE, quote |-> <<>>]

QuoteInit ==
    /\ app = "vercel"
    /\ kv = [k \in {} |-> Null]
    /\ req = [r \in Reqs |-> IdleReq]
    /\ faults = 0
    /\ expired = {}
    /\ mailbox = <<>>
    /\ poll = <<>>
    /\ notified = [s \in SignalIds |-> 0]
    /\ tv_shared_secret = "tv-secret"
    /\ input \in [source : {"quote"}, symbol : QuoteSymbols]
    /\ parsed = NotDetected

detect_quote ==
    /\ ~parsed.done
    /\ parsed' = [done |-> TRUE, quote |-> detect_quote_currency(input.symbol)]
    /\ UNCHANGED <<webVars, mailbox, poll, notified, input>>

QuoteNext == detect_quote

QuoteSpec == QuoteInit /\ [][QuoteNext]_vars

\* ----------------------------------------------------- the notification body
\* One Signal Record is formatted several times while the wall clock
\* advances, by format_signal_message (webhook path) or by
\* EmailProcessor._format_telegram_message (email path).  `parsed` holds the
\* wall clock in seconds and the bodies produced so far.
FormatSymbols == {BTC \o USDT, ETH \o BTC, <<"E", "U", "R", "G", "B", "P">>}
FormatTimeframes == {"15", "60", "D", "30"}
FormatRecords ==
    [symbol : FormatSymbols, timeframe : FormatTimeframes, bar_time : {0, 60000},
     entry : 0..MaxPrice, stop : 0..1, target : {MaxPrice}, rr : {2},
     signal_id : {"BTCUSDT_60_123"}]
FormatInputs == [source : {"format"}, path : {"webhook", "email"}, rec : FormatRecords]

Abs(n) == IF n < 0 THEN 0 - n ELSE n
\* a percentage rounded to two decimals, held in hundredths of a percent
Percent2(num, den) == (2 * num * 10000 + den) \div (2 * den)

\* lib/formatters.py
format_price(price, quote_currency) ==
    CASE quote_currency \in {USDT, BUSD, USDC, USD} -> [style |-> "$,.2f", price |-> price]
      [] quote_currency = BTC -> [style |-> ".8f BTC", price |-> price]
      [] quote_currency = ETH -> [style |-> ".6f ETH", price |-> price]
      [] OTHER -> [style |-> ".4f", price |-> price]
calculate_risk_percentage(entry, stop) ==
    IF entry <= 0 THEN 0 ELSE Percent2(Abs(entry - stop), entry)
convert_timestamp_to_london(timestamp_ms) ==
    [zone |-> "Europe/London", minute |-> timestamp_ms \div 60000]
normalize_timeframe_display(timeframe) ==
    CASE timeframe = "5" -> "5m" [] timeframe = "15" -> "15m" [] timeframe = "60" -> "1h"
      [] timeframe = "240" -> "4h" [] timeframe = "D" -> "1D" [] OTHER -> timeframe
format_signal_message_body(r) ==
    [raised |-> "none",
     pair |-> <<r.symbol, detect_quote_currency(r.symbol)>>,
     tf_display |-> normalize_timeframe_display(r.timeframe),
     signal_time |-> convert_timestamp_to_london(r.bar_time),
     entry |-> format_price(r.entry, detect_quote_currency(r.symbol)),
     stop |-> format_price(r.stop, detect_quote_currency(r.symbol)),
     target |-> format_price(r.target, detect_quote_currency(r.symbol)),
     risk_pct |-> calculate_risk_percentage(r.entry, r.stop),
     rr |-> r.rr,
     chart |-> <<r.symbol, r.timeframe>>,
     signal_id |-> r.signal_id]

\* api/email_check.py
EmailPrice(symbol, price) ==
    IF EndsWith(symbol, USDT) THEN [style |-> "$,.2f", price |-> price]
    ELSE IF EndsWith(symbol, BTC) THEN [style |-> ".8f BTC", price |-> price]
    ELSE [style |-> "plain", price |-> price]
EmailTimeframe(timeframe) ==
    CASE timeframe = "15" -> "15m" [] timeframe = "60" -> "1h"
      [] timeframe = "240" -> "4h" [] timeframe = "D" -> "1d" [] OTHER -> timeframe
\* datetime.utcnow().strftime('%Y-%m-%d %H:%M UTC')
utcnow_strftime(now) == [zone |-> "UTC", minute |-> now \div 60]
NoBody(error) ==
    [raised |-> error, pair |-> <<>>, tf_display |-> "", signal_time |-> [zone |-> "", minute |-> 0],
     entry |-> [style |-> "", price |-> 0], stop |-> [style |-> "", price |-> 0],
     target |-> [style |-> "", price |-> 0], risk_pct |-> 0, rr |-> 0, chart |-> <<>>,
     signal_id |-> ""]
format_telegram_message_body(r, now) ==
    IF r.entry = 0 THEN NoBody("ZeroDivisionError")
    ELSE [raised |-> "none",
          pair |-> <<r.symbol>>,
          tf_display |-> EmailTimeframe(r.timeframe),
          signal_time |-> utcnow_strftime(now),
          entry |-> EmailPrice(r.symbol, r.entry),
          stop |-> EmailPrice(r.symbol, r.stop),
          target |-> EmailPrice(r.symbol, r.target),
          risk_pct |-> Percent2(Abs(r.entry - r.stop), r.entry),
          rr |-> r.rr,
          chart |-> <<>>,
          signal_id |-> r.signal_id]

FormatInit ==
    /\ app = "vercel"
    /\ kv = [k \in {} |-> Null]
    /\ req = [r \in Reqs |-> IdleReq]
    /\ faults = 0
    /\ expired = {}
    /\ mailbox = <<>>
    /\ poll = <<>>
    /\ notified = [s \in SignalIds |-> 0]
    /\ tv_shared_secret = "tv-secret"
    /\ input \in FormatInputs
    /\ parsed = [now |-> 0, bodies |-> <<>>]

\* Half a minute of wall-clock time passes.
Tick ==
    /\ parsed.now < 30 * MaxClock
    /\ parsed' = [parsed EXCEPT !.now = @ + 30]
    /\ UNCHANGED <<webVars, mailbox, poll, notified, input>>

format_signal_message ==
    /\ input.path = "webhook"
    /\ Len(parsed.bodies) < MaxBodies
    /\ parsed' = [parsed EXCEPT !.bodies = Append(@, format_signal_message_body(input.rec))]
    /\ UNCHANGED <<webVars, mailbox, poll, notified, input>>

format_telegram_message ==
    /\ input.path = "email"
    /\ Len(parsed.bodies) < MaxBodies
    /\ parsed' = [parsed EXCEPT !.bodies =
                      Append(@, format_telegram_message_body(input.rec, parsed.now))]
    /\ UNCHANGED <<webVars, mailbox, poll, notified, input>>

FormatNext ==
    \/ Tick
    \/ format_signal_message
    \/ format_telegram_message

FormatSpec == FormatInit /\ [][FormatNext]_vars


\* ------------------------------------------------------- the entry's expiry
\* One signal_id, one submission, the store answering every round trip with
\* 200, and a clock in seconds: save_signal, later mark_signal_sent, and the
\* store deleting the key when its time-to-live has elapsed.  `input.error`
\* is the error argument the delivery hands to mark_signal_sent.
NoEntry == [present |-> FALSE, expires_at |-> 0, telegram_sent |-> FALSE, retry_count |-> 0]
NotReserved ==
    [now |-> 0, ticks |-> 0, pc |-> "idle", entry |-> NoEntry, reserved_at |-> 0,
     saved |-> "none", marked |-> "none"]

TtlInit ==
    /\ app = "flask"
    /\ kv = [k \in {} |-> Null]
    /\ req = [r \in Reqs |-> IdleReq]
    /\ faults = 0
    /\ expired = {}
    /\ mailbox = <<>>
    /\ poll = <<>>
    /\ notified = [s \in SignalIds |-> 0]
    /\ tv_shared_secret = "tv-secret"
    /\ input \in [source : {"ttl"}, error : {Null, "Failed after all retries"}]
    /\ parsed = NotReserved

\* SET key value EX ex: the key lives until ex seconds from now.
SetEx(now, ex) == now + ex

\* Time passes, a second or a day; the store deletes the key once its
\* time-to-live has elapsed.
Elapse(d) ==
    /\ parsed.ticks < MaxTicks
    /\ LET now == parsed.now + d IN
       parsed' = [parsed EXCEPT !.now = now, !.ticks = @ + 1,
                                !.entry = IF @.present /\ @.expires_at <= now THEN NoEntry ELSE @]
    /\ UNCHANGED <<webVars, mailbox, poll, notified, input>>

\* save_signal: exists, then set of the default record with ex = ttl_seconds.
save_signal ==
    /\ parsed.pc = "idle"
    /\ parsed' = IF parsed.entry.present
                 THEN [parsed EXCEPT !.saved = "false", !.pc = "done"]
                 ELSE [parsed EXCEPT !.saved = "true", !.pc = "delivering",
                                     !.reserved_at = parsed.now,
                                     !.entry = [present |-> TRUE,
                                                expires_at |-> SetEx(parsed.now, TtlSeconds),
                                                telegram_sent |-> FALSE, retry_count |-> 0]]
    /\ UNCHANGED <<webVars, mailbox, poll, notified, input>>

\* mark_signal_sent: get; no record -> return False; otherwise the updated
\* record is set with ex = ttl_seconds.
mark_signal_sent ==
    /\ parsed.pc = "delivering"
    /\ parsed' = IF ~parsed.entry.present
                 THEN [parsed EXCEPT !.marked = "false", !.pc = "done"]
                 ELSE [parsed EXCEPT !.marked = "true", !.pc = "done",
                                     !.entry = [present |-> TRUE,
                                                expires_at |-> SetEx(parsed.now, TtlSeconds),
                                                telegram_sent |-> input.error = Null,
                                                retry_count |-> IF input.error = Null
                                                                THEN @.retry_count
                                                                ELSE @.retry_count + 1]]
    /\ UNCHANGED <<webVars, mailbox, poll, notified, input>>

TtlNext ==
    \/ \E d \in {1, 24 * 60 * 60} : Elapse(d)
    \/ save_signal
    \/ mark_signal_sent

TtlSpec == TtlInit /\ [][TtlNext]_vars


\* -------------------------------------------------------- the enabled pairs
\* lib/database.py get_enabled_pairs, add_coin_pair, remove_coin_pair over the
\* key config:enabled_pairs, which is written without an expiry.  pairs_data
\* is a map symbol -> enabled.  `input.cmds` are the admin commands of the
\* behaviour; `parsed` holds their positions and locals, the symbols whose
\* removal has returned True with no successful add since (`removed`), and
\* the outcome of the latest enabled-pairs check of process_webhook.
ConfigKey == <<"config", "enabled_pairs">>
NoExpiry == 0
Cmds == 1..MaxCmds
PairSymbols == {BTCUSDT, DOGEUSDT}
NoPairs == [x \in {} |-> TRUE]
DefaultPairsData == [x \in pairs_list |-> TRUE]
EnabledIn(pairs_data) == {x \in DOMAIN pairs_data : pairs_data[x]}

\* get_enabled_pairs, given the answer of its kv.get: the enabled symbols of
\* the stored list; settings.pairs_list when the store holds none and on
\* every error.
get_enabled_pairs_reply(reply) ==
    IF KvGet(reply, ConfigKey) = "value" THEN EnabledIn(kv[ConfigKey].value) ELSE pairs_list

\* add_coin_pair: the pair is enabled, or appended enabled.
Enable(pairs_data, symbol) ==
    [x \in DOMAIN pairs_data \cup {Upper(symbol)} |->
        IF x = Upper(symbol) THEN TRUE ELSE pairs_data[x]]
\* remove_coin_pair: the pair found is disabled.
Disable(pairs_data, symbol) == [pairs_data EXCEPT ![Upper(symbol)] = FALSE]

IdleCmd == [pc |-> "get", data |-> NoPairs, result |-> "none"]
NoCheck == [symbol |-> <<>>, allowed |-> FALSE, removed |-> FALSE]
Returned(c, result) == [c EXCEPT !.pc = "done", !.data = NoPairs, !.result = result]

PairsInit ==
    /\ app = "vercel"
    /\ kv \in {[k \in {} |-> Null]} \cup
              {[k \in {ConfigKey} |-> [value |-> d, ex |-> NoExpiry]] :
                   d \in {DefaultPairsData, Enable(DefaultPairsData, DOGEUSDT)}}
    /\ req = [r \in Reqs |-> IdleReq]
    /\ faults = 0
    /\ expired = {}
    /\ mailbox = <<>>
    /\ poll = <<>>
    /\ notified = [s \in SignalIds |-> 0]
    /\ tv_shared_secret = "tv-secret"
    /\ input \in [source : {"pairs"},
                  cmds : [Cmds -> [op : {"add", "remove"}, symbol : PairSymbols]]]
    /\ parsed = [cmd |-> [c \in Cmds |-> IdleCmd], removed |-> {}, check |-> NoCheck]

pairsFrame == <<app, req, expired, mailbox, poll, notified, tv_shared_secret, input>>

\* add_coin_pair up to its kv.set: the list is read (the default pairs when
\* the store holds none) and the pair enabled in it.
add_coin_pair_get(c) ==
    /\ input.cmds[c].op = "add"
    /\ parsed.cmd[c].pc = "get"
    /\ \E reply \in StoreReplies :
         LET got == KvGet(reply, ConfigKey)
             pairs_data == IF got = "value" THEN kv[ConfigKey].value ELSE DefaultPairsData IN
         /\ faults' = Fault(reply)
         /\ parsed' = [parsed EXCEPT !.cmd[c] =
                          IF got = "raise" THEN Returned(@, "raise")
                          ELSE [@ EXCEPT !.pc = "set",
                                         !.data = Enable(pairs_data, input.cmds[c].symbol)]]
    /\ UNCHANGED <<kv, pairsFrame>>

\* add_coin_pair, kv.set of the list and return True (the status flag of set
\* is not looked at).
add_coin_pair_set(c) ==
    /\ input.cmds[c].op = "add"
    /\ parsed.cmd[c].pc = "set"
    /\ \E reply \in StoreReplies :
         LET done == KvSet(reply) IN
         /\ faults' = Fault(reply)
         /\ kv' = IF done = "true" THEN KvPut(kv, ConfigKey, parsed.cmd[c].data, NoExpiry) ELSE kv
         /\ parsed' = IF done = "raise"
                      THEN [parsed EXCEPT !.cmd[c] = Returned(@, "raise")]
                      ELSE [parsed EXCEPT !.cmd[c] = Returned(@, "true"),
                                          !.removed = @ \ {Upper(input.cmds[c].symbol)}]
    /\ UNCHANGED pairsFrame

\* remove_coin_pair up to its kv.set: no list or no such pair -> False.
remove_coin_pair_get(c) ==
    /\ input.cmds[c].op = "remove"
    /\ parsed.cmd[c].pc = "get"
    /\ \E reply \in StoreReplies :
         LET got == KvGet(reply, ConfigKey)
             symbol == input.cmds[c].symbol IN
         /\ faults' = Fault(reply)
         /\ parsed' = [parsed EXCEPT !.cmd[c] =
                          IF got = "raise" THEN Returned(@, "raise")
                          ELSE IF got = "none" THEN Returned(@, "false")
                          ELSE IF Upper(symbol) \notin DOMAIN kv[ConfigKey].value
                          THEN Returned(@, "false")
                          ELSE [@ EXCEPT !.pc = "set",
                                         !.data = Disable(kv[ConfigKey].value, symbol)]]
    /\ UNCHANGED <<kv, pairsFrame>>

\* remove_coin_pair, kv.set of the list and return True.
remove_coin_pair_set(c) ==
    /\ input.cmds[c].op = "remove"
    /\ parsed.cmd[c].pc = "set"
    /\ \E reply \in StoreReplies :
         LET done == KvSet(reply) IN
         /\ faults' = Fault(reply)
         /\ kv' = IF done = "true" THEN KvPut(kv, ConfigKey, parsed.cmd[c].data, NoExpiry) ELSE kv
         /\ parsed' = IF done = "raise"
                      THEN [parsed EXCEPT !.cmd[c] = Returned(@, "raise")]
                      ELSE [parsed EXCEPT !.cmd[c] = Returned(@, "true"),
                                          !.removed = @ \cup {Upper(input.cmds[c].symbol)}]
    /\ UNCHANGED pairsFrame

\* process_webhook, the enabled-pairs check of a submission for a symbol.
process_webhook(symbol) ==
    /\ \E reply \in StoreReplies :
         /\ faults' = Fault(reply)
         /\ parsed' = [parsed EXCEPT !.check =
                          [symbol |-> symbol,
                           allowed |-> symbol \in get_enabled_pairs_reply(reply),
                           removed |-> symbol \in parsed.removed]]
    /\ UNCHANGED <<kv, pairsFrame>>

PairsNext ==
    \/ \E c \in Cmds : add_coin_pair_get(c)
    \/ \E c \in Cmds : add_coin_pair_set(c)
    \/ \E c \in Cmds : remove_coin_pair_get(c)
    \/ \E c \in Cmds : remove_coin_pair_set(c)
    \/ \E symbol \in PairSymbols : process_webhook(symbol)

PairsSpec == PairsInit /\ [][PairsNext]_vars

\* -------------------------------------------------------------- the routing
\* Settings.get_chat_id_for_signal over bounded settings and signals.
Chats == {"chat_a", "chat_b"}
SymbolMaps == UNION {[D -> Chats] : D \in SUBSET {BTCUSDT, ETHUSDT}}
TfMaps == UNION {[D -> Chats] : D \in SUBSET {"60", "15"}}
RouteSymbols == {BTCUSDT, Cased(BTCUSDT, [i \in DOMAIN BTCUSDT |-> TRUE]), DOGEUSDT}
NotRouted == [by |-> "none", chat |-> ""]

RouteInit ==
    /\ app = "vercel"
    /\ kv = [k \in {} |-> Null]
    /\ req = [r \in Reqs |-> IdleReq]
    /\ faults = 0
    /\ expired = {}
    /\ mailbox = <<>>
    /\ poll = <<>>
    /\ notified = [s \in SignalIds |-> 0]
    /\ tv_shared_secret = "tv-secret"
    /\ input \in [source : {"route"}, symbol_chat_map : SymbolMaps, tf_chat_map : TfMaps,
                   symbol : RouteSymbols, timeframe : {"60", "240"}]
    /\ parsed = NotRouted

\* send_signal_message: chat_id = settings.get_chat_id_for_signal(symbol, timeframe)
resolve_chat_id ==
    /\ parsed.by = "none"
    /\ parsed' = [by |-> "get_chat_id_for_signal",
                  chat |-> Route(input.symbol_chat_map, input.tf_chat_map,
                                 telegram_chat_id_default,
                                 input.symbol, input.timeframe)]
    /\ UNCHANGED <<webVars, mailbox, poll, notified, input>>

RouteNext == resolve_chat_id

RouteSpec == RouteInit /\ [][RouteNext]_vars


\* ------------------------------------------------------------ the delivery
\* send_signal_message with send_with_retry and mark_signal_sent, for one
\* signal (BTCUSDT, 60) under bounded settings.  The setting
\* telegram_retry_delays is the list of the items between its commas, an item
\* being a number or blank (0 stands for a blank item); <<>> is the empty
\* string.
DelayItems == {0, 1, 2}
RetryDelaySettings == UNION {[1..n -> DelayItems] : n \in 0..MaxDelays}
default_retry_delays == <<1, 2, 4>>

\* Settings.validate_retry_delays: the default list for an empty setting,
\* otherwise the numbers of the non-blank items (there may be none).
NonBlank(item) == item # 0
validate_retry_delays(v) ==
    IF v = <<>> THEN default_retry_delays ELSE SelectSeq(v, NonBlank)

Min(a, b) == IF a <= b THEN a ELSE b

\* The delay is always the first one of the list.
RetryDelay_First(delays, attempt) == delays[1]

\* retry_delays_list[min(attempt, len(retry_delays_list) - 1)], attempt
\* counted from 0.
RetryDelay(delays, attempt) == delays[Min(attempt, Len(delays) - 1) + 1]

\* `for attempt in range(max_retries)` and `if attempt < max_retries - 1`.
InRange(attempt, max_retries) == attempt < max_retries
SleepsAfter(attempt, max_retries) == attempt < max_retries - 1

NoTfMap == [x \in {} |-> ""]
DeliverySettings ==
    [source : {"delivery"},
     telegram_max_retries : 0..MaxRetries,
     telegram_retry_delays : RetryDelaySettings,
     symbol_chat_map : {[x \in {} |-> ""], symbol_chat_map},
     telegram_chat_id_default : {"", telegram_chat_id_default}]

\* A delivery: `attempt` is the loop variable, `calls` the send_message calls
\* made, `waits` the delays slept, `success` what send_with_retry returned,
\* `returned` what send_signal_message returned, `raised` the exception
\* that left it, `recorded` what mark_signal_sent wrote, `store` how the
\* store answered mark_signal_sent.
NotDelivered ==
    [by |-> "none", pc |-> "idle", chat_id |-> "", attempt |-> 0, calls |-> 0,
     waits |-> <<>>, success |-> FALSE, returned |-> "none", raised |-> "none",
     recorded |-> "none", store |-> "none"]

DeliveryInit ==
    /\ app = "flask"
    /\ kv = [k \in {} |-> Null]
    /\ req = [r \in Reqs |-> IdleReq]
    /\ faults = 0
    /\ expired = {}
    /\ mailbox = <<>>
    /\ poll = <<>>
    /\ notified = [s \in SignalIds |-> 0]
    /\ tv_shared_secret = "tv-secret"
    /\ input \in DeliverySettings
    /\ parsed = NotDelivered

\* send_signal_message up to the first send_message call: the route, the
\* text, and the entry into the loop of send_with_retry (which returns False
\* at once when the range is empty).
send_signal_message ==
    /\ parsed.pc = "idle"
    /\ parsed' = [parsed EXCEPT
                    !.by = "send_signal_message",
                    !.chat_id = Route(input.symbol_chat_map, NoTfMap,
                                      input.telegram_chat_id_default, BTCUSDT, "60"),
                    !.pc = IF InRange(0, input.telegram_max_retries) THEN "send" ELSE "mark"]
    /\ UNCHANGED <<webVars, mailbox, poll, notified, input>>

\* One iteration of the loop of send_with_retry: send_message returns or
\* raises TelegramError (Telegram turns an empty chat_id down); on
\* TelegramError the delay is looked up (IndexError on an empty list, which
\* nothing catches) and slept unless this was the last attempt.
send_with_retry_attempt ==
    /\ parsed.pc = "send"
    /\ \E ok \in BOOLEAN :
         LET delays == validate_retry_delays(input.telegram_retry_delays)
             max_retries == input.telegram_max_retries
             a == parsed.attempt
             q == [parsed EXCEPT !.calls = @ + 1] IN
         /\ parsed.chat_id = "" => ~ok
         /\ parsed' =
              IF ok THEN [q EXCEPT !.success = TRUE, !.pc = "mark"]
              ELSE IF delays = <<>> THEN [q EXCEPT !.raised = "IndexError", !.pc = "done"]
              ELSE LET slept == IF SleepsAfter(a, max_retries)
                                THEN [q EXCEPT !.waits = Append(@, RetryDelay(delays, a))]
                                ELSE q IN
                   IF InRange(a + 1, max_retries)
                   THEN [slept EXCEPT !.attempt = a + 1]
                   ELSE [slept EXCEPT !.pc = "mark"]
    /\ UNCHANGED <<webVars, mailbox, poll, notified, input>>

\* send_signal_message after send_with_retry: mark_signal_sent with or
\* without the error text; the store answers, holds no record any more, or
\* fails (DatabaseError); then `return success`.
send_signal_message_mark ==
    /\ parsed.pc = "mark"
    /\ \E store \in {"ok", "missing", "error"} :
         parsed' =
           CASE store = "ok" ->
                  [parsed EXCEPT !.store = store, !.pc = "done",
                                 !.recorded = IF parsed.success THEN "sent" ELSE "error",
                                 !.returned = IF parsed.success THEN "true" ELSE "false"]
             [] store = "missing" ->
                  [parsed EXCEPT !.store = store, !.pc = "done",
                                 !.returned = IF parsed.success THEN "true" ELSE "false"]
             [] OTHER ->
                  [parsed EXCEPT !.store = store, !.pc = "done", !.raised = "DatabaseError"]
    /\ UNCHANGED <<webVars, mailbox, poll, notified, input>>

DeliveryNext ==
    \/ send_signal_message
    \/ send_with_retry_attempt
    \/ send_signal_message_mark

DeliverySpec == DeliveryInit /\ [][DeliveryNext]_vars

\* ------------------------------------------------------------------ claims
\* Submissions carrying signal_id s that entered save_signal.
Callers(s) == {r \in Reqs : req[r].sid = s /\ (req[r].saved # "none" \/ req[r].pc \in {"exists", "set_signal", "set_recent"})}
Accepted(s) == {r \in Reqs : req[r].sid = s /\ req[r].saved = "true"}
Deliveries(s) == {r \in Reqs : req[r].sid = s /\ req[r].delivery # "none"}
\* The store answered every round trip with 200, and has not expired s's entry.
Healthy == faults = 0
InWindow(s) == SignalKey(s) \notin expired

\* C1: of the concurrent save_signal calls for one signal_id (store healthy,
\* entry not expired in between) exactly one returns True: never two, and at
\* least one once all of them have returned.
C1_SingleWinner ==
    \A s \in SignalIds :
        (Healthy /\ InWindow(s)) =>
            /\ Cardinality(Accepted(s)) <= 1
            /\ (Callers(s) # {} /\ (\A r \in Callers(s) : req[r].saved # "none"))
                   => Cardinality(Accepted(s)) = 1

\* C2: within the retention window send_signal_message is started at most
\* once per signal_id, and a submission whose save_signal returned False
\* starts no delivery and no status update.
C2_DeliveryAtMostOnce ==
    /\ \A s \in SignalIds :
           (Healthy /\ InWindow(s)) => Cardinality(Deliveries(s)) <= 1
    /\ \A r \in Reqs :
           req[r].saved = "false" => req[r].delivery = "none" /\ req[r].marked = "none"

\* C3: on the email path at most one notification is sent per signal_id,
\* across all poll cycles.
C3_EmailNotifiesOnce == \A s \in SignalIds : notified[s] <= 1

\* C4: when exactly two valid submissions of one signal_id have been answered
\* (store healthy, entry not expired), one answer is `success` and the other
\* `duplicate`.
C4_SuccessThenDuplicate ==
    \A s \in SignalIds : \A a, b \in Reqs :
        (/\ a # b
         /\ Callers(s) = {a, b}
         /\ req[a].pc = "done" /\ req[b].pc = "done"
         /\ Healthy /\ InWindow(s))
        => {req[a].resp, req[b].resp} = {"success", "duplicate"}

\* C5: a submission whose dedup lookup or record write was answered with an
\* error by the store is aborted: save_signal returns neither True nor False,
\* no delivery is started, and the handler (other than Flask's, which has
\* answered already) answers 500.
C5_StoreFaultAborts ==
    \A r \in Reqs :
        req[r].savefault \in {"exists", "set"} =>
            /\ req[r].saved \notin {"true", "false"}
            /\ req[r].delivery = "none"
            /\ (req[r].handler # "flask" /\ req[r].resp # "none") => req[r].resp = "500"

\* The stored status of s says the delivery ended (sent, or failed for good).
Terminal(s) ==
    /\ SignalKey(s) \in DOMAIN kv
    /\ kv[SignalKey(s)].value.telegram_sent \/ kv[SignalKey(s)].value.telegram_error # Null

\* C6: an accepted submission does not come to rest before its delivery has
\* ended with the outcome recorded in the store (store healthy, entry not
\* expired): once nothing more will run for it, the record is terminal.
C6_AcceptedReachesTerminal ==
    \A r \in Reqs :
        (req[r].saved = "true" /\ req[r].pc = "done" /\ Healthy /\ InWindow(req[r].sid))
        => (req[r].delivery = "returned" /\ Terminal(req[r].sid))

\* The record tells the outcome `sent` of send_with_retry.
Reflects(rec, sent) ==
    /\ rec.telegram_sent <=> sent = "true"
    /\ rec.telegram_sent => rec.sent_at_utc # Null /\ rec.chat_id # Null
    /\ rec.telegram_error # Null <=> sent = "false"

\* C7: at the step in which send_signal_message finishes for a signal_id that
\* has a record, the record reflects the outcome.
C7_StatusReflectsOutcome ==
    [][\A r \in Reqs :
          (/\ req[r].delivery = "running"
           /\ req'[r].delivery = "returned"
           /\ SignalKey(req[r].sid) \in DOMAIN kv')
          => Reflects(kv'[SignalKey(req[r].sid)].value, req'[r].sent)]_vars

\* C8: a delivery that failed on attempts 1 and 2 and succeeded on attempt 3
\* leaves telegram_sent = true and retry_count = 2 in the record (store
\* healthy, a single delivery of that signal_id, entry not expired).
C8_RetryCountCountsFailures ==
    \A r \in Reqs :
        (/\ req[r].delivery = "returned" /\ req[r].marked = "true"
         /\ req[r].sent = "true" /\ req[r].attempts = 3
         /\ Deliveries(req[r].sid) = {r}
         /\ Healthy /\ InWindow(req[r].sid)
         /\ SignalKey(req[r].sid) \in DOMAIN kv)
        => /\ kv[SignalKey(req[r].sid)].value.telegram_sent
           /\ kv[SignalKey(req[r].sid)].value.retry_count = 2

C10_ExpiredIsNew ==
    \A r \in Reqs :
        (req[r].resubmitted /\ Healthy /\ req[r].saved # "none")
        => (req[r].saved = "true" /\ req[r].delivery # "none")

\* C11: a submission whose (normalized) symbol is not in the enabled pairs is
\* answered 400 and ends there: it is not handed to save_signal, no signal:
\* or recent: key of its signal_id is written, no notification is sent.
C11_DisabledSymbolRejected ==
    \A r \in Reqs :
        (req[r].sid # "none" /\ ~verify_symbol_allowed(Payload(req[r].sid).symbol)) =>
            /\ req[r].resp = "400" /\ req[r].pc = "done"
            /\ req[r].saved = "none" /\ req[r].delivery = "none" /\ req[r].attempts = 0
            /\ SignalKey(req[r].sid) \notin DOMAIN kv
            /\ RecentKey(req[r].sid) \notin DOMAIN kv

\* C12: a submission whose X-TV-Secret header is missing or differs from the
\* configured shared secret, and any submission when no shared secret is
\* configured, is answered 401 and ends there: save_signal is not entered and
\* nothing is sent.
C12_SecretRequired ==
    \A r \in Reqs :
        (/\ req[r].handler # "none"
         /\ req[r].header = Null \/ req[r].header # tv_shared_secret \/ tv_shared_secret = "")
        => /\ req[r].resp = "401" /\ req[r].pc = "done"
           /\ req[r].saved = "none" /\ req[r].delivery = "none" /\ req[r].attempts = 0

\* C13: at the step in which a submission is answered `success` (store
\* healthy, entry not expired) the store holds the record of its signal_id,
\* and its delivery has not finished.
C13_SuccessAfterPersist ==
    [][\A r \in Reqs :
          (/\ req[r].resp # "success" /\ req'[r].resp = "success"
           /\ faults' = 0 /\ SignalKey(req'[r].sid) \notin expired')
          => /\ SignalKey(req'[r].sid) \in DOMAIN kv'
             /\ req'[r].delivery \in {"none", "running"}]_vars

\* C14: every record a parser emits (structured or free-text) has numbers
\* for stop, entry and target with 0 < stop < entry < target.
C14_EmittedPricesOrdered ==
    parsed.ok =>
        /\ \A k \in {"stop", "entry", "target"} : parsed.rec[k].type = "number"
        /\ 0 < parsed.rec.stop.val
        /\ parsed.rec.stop.val < parsed.rec.entry.val
        /\ parsed.rec.entry.val < parsed.rec.target.val

\* The payload the claim calls acceptable: the nine keys, entry, stop, target
\* and rr numbers greater than 0, stop < entry < target, a supported
\* timeframe and an allowed event.
Acceptable(p) ==
    /\ \A k \in {"event", "symbol", "timeframe", "bar_time", "entry", "stop",
                  "target", "rr", "signal_id"} : p[k].present
    /\ \A k \in {"entry", "stop", "target", "rr"} : p[k].type = "number" /\ p[k].val > 0
    /\ p.stop.val < p.entry.val /\ p.entry.val < p.target.val
    /\ p.timeframe.value \in {"5", "15", "60", "240", "D"}
    /\ p.event.value = "EMA_BOUNCE_BUY"

\* C15: a structured parser accepts a payload if and only if the payload is
\* acceptable.
C15_StructuredAcceptsIff ==
    parsed.by \in {"TradingViewPayload", "validate_tradingview_payload"} =>
        (parsed.ok <=> Acceptable(input))

\* The required keys an input lacks, on its path.
Lacking(p) ==
    IF p.source = "webhook"
    THEN {k \in {"event", "symbol", "timeframe", "bar_time", "entry", "stop",
                 "target", "rr", "signal_id"} : ~p[k].present}
    ELSE {k \in {"action", "symbol", "timeframe", "entry", "stop", "target", "rr",
                 "signal_id"} : ~p[k].present}

\* C16: an input that lacks a required key is rejected by each parser of its
\* path, and the caller does not go on to save_signal or to a notification.
C16_MissingFieldRejected ==
    (parsed.by # "none" /\ Lacking(input) # {}) =>
        /\ ~parsed.ok
        /\ parsed.then \in {"validation error", "next message", "return None"}

\* C16 witness: each path has rejected an input lacking only signal_id.
C16_Witness ==
    /\ parsed.by \in {"validate_tradingview_payload", "EmailProcessor"}
    /\ Lacking(input) = {"signal_id"}
    /\ ~parsed.ok

\* No lower-case letter, no blank at either end.
IsNormal(str) ==
    /\ \A i \in DOMAIN str : str[i] \notin {"b", "t", "e", "d", "g"}
    /\ str # <<>> => str[1] # Blank /\ str[Len(str)] # Blank

\* C17: the structured parsers emit the symbol upper-cased and trimmed; a
\* payload (valid otherwise) whose symbol spells an enabled pair in another
\* letter case or with surrounding blanks is accepted, and the symbol handed
\* on is that pair: the enabled-pairs check passes and the route is the
\* pair's.
C17_SymbolNormalized ==
    (parsed.by \in {"TradingViewPayload", "validate_tradingview_payload"}) =>
        /\ parsed.ok => IsNormal(parsed.rec.symbol.value)
        /\ \A pair \in get_enabled_pairs :
              (/\ input.symbol.present
               /\ input.symbol.value \in Spellings(pair)
               /\ [input EXCEPT !.symbol = Symbol(BTCUSDT)] = ValidPayload)
              => /\ parsed.ok
                 /\ parsed.rec.symbol.value = pair
                 /\ verify_symbol_allowed(parsed.rec.symbol.value)
                 /\ get_chat_id_for_signal(parsed.rec.symbol.value, parsed.rec.timeframe.value)
                      = get_chat_id_for_signal(pair, input.timeframe.value)

\* C17 witness: a lower-case symbol with a blank on both sides was accepted.
C17_Witness ==
    /\ parsed.by = "TradingViewPayload" /\ parsed.ok
    /\ input.symbol.value = <<Blank, "b", "t", Blank>>
    /\ parsed.rec.symbol.value = BTCUSDT

\* C18: get_chat_id_for_signal returns the symbol map's destination when the
\* (upper-cased) symbol has an entry, even if the timeframe has one too;
\* otherwise the timeframe map's destination when the timeframe has an
\* entry; otherwise the default destination.
C18_RoutingPriority ==
    parsed.by # "none" =>
        LET hasSymbol == \E k \in DOMAIN input.symbol_chat_map : k = Upper(input.symbol)
            hasTf == input.timeframe \in DOMAIN input.tf_chat_map IN
        /\ hasSymbol => parsed.chat = input.symbol_chat_map[Upper(input.symbol)]
        /\ (~hasSymbol /\ hasTf) => parsed.chat = input.tf_chat_map[input.timeframe]
        /\ (~hasSymbol /\ ~hasTf) => parsed.chat = "chat_default"

\* C18 witness: symbol and timeframe both have an entry, to different chats,
\* and the symbol's was returned.
C18_Witness ==
    /\ parsed.by # "none"
    /\ input.symbol \in DOMAIN input.symbol_chat_map
    /\ input.timeframe \in DOMAIN input.tf_chat_map
    /\ input.symbol_chat_map[input.symbol] # input.tf_chat_map[input.timeframe]
    /\ parsed.chat = input.symbol_chat_map[input.symbol]

\* C19: an email line whose secret differs from the configured secret token
\* yields no record from either free-text parser.
C19_EmailSecretChecked ==
    (/\ input.source = "email" /\ parsed.by # "none"
     /\ input.secret.present /\ input.secret.value # tv_shared_secret)
    => ~parsed.ok

\* C20: a poll cycle that got as far as its message loop ends only after the
\* loop has taken up every message the search selected, whatever failed on
\* the way; while messages are left the next one can always be taken up, and
\* each step of the loop takes up exactly one.
C20_FailureDoesNotAbortCycle ==
    /\ [](\A p \in Polls :
            /\ poll[p].pc = "loop" => poll[p].visited + Len(poll[p].ids) = poll[p].total
            /\ (poll[p].pc = "loop" /\ poll[p].ids # <<>>) => ENABLED check_emails_message(p)
            /\ (poll[p].pc = "done" /\ poll[p].status = "ok") => poll[p].visited = poll[p].total)
    /\ [][\A p \in Polls :
            poll'[p].visited # poll[p].visited => poll'[p].visited = poll[p].visited + 1]_vars

\* C20 witness: a cycle over at least two messages ended with every message
\* taken up although the first message, which carries a signal, failed (no
\* notification of its signal_id was sent).
C20_Witness ==
    \E p \in Polls :
        /\ poll[p].pc = "done" /\ poll[p].status = "ok"
        /\ poll[p].total >= 2 /\ poll[p].visited = poll[p].total
        /\ mailbox[1].parsed # "none" /\ notified[mailbox[1].parsed] = 0

\* C21: no two poll cycles are in their message loop (connected, draining
\* the selected messages) at the same time, and no cycle starts while another
\* one is there.
C21_PollCyclesDoNotOverlap ==
    /\ [](\A p, q \in Polls :
            (poll[p].pc = "loop" /\ poll[q].pc = "loop") => p = q)
    /\ [][\A p \in Polls :
            (poll[p].pc = "idle" /\ poll'[p].pc # "idle")
            => \A q \in Polls : poll[q].pc # "loop"]_vars

\* C22: a save_signal whose dedup lookup is made while the store holds the
\* record of its signal_id, and gets an answer from the store (no connection
\* error), returns False, and the step writes nothing: the signal: record
\* (status fields, expiry) and the recent: entry stay as they are.
C22_DuplicateWritesNothing ==
    [][\A r \in Reqs :
          (/\ req[r].pc = "exists" /\ req'[r] # req[r]
           /\ req'[r].saved # "raise"
           /\ SignalKey(req[r].sid) \in DOMAIN kv)
          => (req'[r].saved = "false" /\ kv' = kv)]_vars

\* C23: a poll cycle takes up at most RecentLimit messages (the cap the
\* search of check_emails knows), however many the folder holds.
C23_InspectedMessagesCapped ==
    \A p \in Polls : poll[p].total <= RecentLimit /\ poll[p].visited <= RecentLimit

\* The delay list of the delivery's settings.
Delays == validate_retry_delays(input.telegram_retry_delays)

\* C24: in send_with_retry the wait that follows failed attempt k (counted
\* from 0) is retry_delays[min(k, len - 1)]; every failed attempt that is
\* followed by another attempt is followed by exactly one wait, and there is
\* no wait after the last attempt or after a successful one.
C24_RetryDelaySelected ==
    parsed.by # "none" =>
        /\ \A i \in 1..Len(parsed.waits) :
               parsed.waits[i] = Delays[(IF i - 1 <= Len(Delays) - 1 THEN i - 1 ELSE Len(Delays) - 1) + 1]
        /\ Len(parsed.waits) =
               IF parsed.calls = 0 THEN 0
               ELSE IF parsed.pc = "send" THEN parsed.calls ELSE parsed.calls - 1
        /\ parsed.pc = "send" => parsed.calls < input.telegram_max_retries

\* C24 witness: three failed attempts with a one-item list: the item was
\* waited twice, and not after the third attempt.
C24_Witness ==
    /\ parsed.pc = "done" /\ parsed.returned = "false"
    /\ Len(Delays) = 1 /\ parsed.calls = 3
    /\ parsed.waits = <<Delays[1], Delays[1]>>

\* C25: whatever telegram_max_retries and the delay list are, no exception
\* leaves send_with_retry or send_signal_message because a send failed (only
\* a failing store raises), and a delivery that did not succeed returns False
\* with the error recorded (the store answering).
C25_DeliveryFailureIsReturned ==
    /\ parsed.raised # "none" => parsed.store = "error"
    /\ (parsed.pc = "done" /\ parsed.store = "ok" /\ ~parsed.success)
           => (parsed.returned = "false" /\ parsed.recorded = "error")

\* C26: with no override for the signal and an empty default destination
\* the route is the empty default, and the delivery to it ends with False
\* returned and the error recorded, nothing raised (the store answering).
C26_EmptyDefaultFailsCleanly ==
    (/\ parsed.by # "none"
     /\ BTCUSDT \notin DOMAIN input.symbol_chat_map
     /\ input.telegram_chat_id_default = "")
    => /\ parsed.chat_id = ""
       /\ parsed.pc = "done" =>
            \/ parsed.store \in {"missing", "error"}
            \/ (parsed.raised = "none" /\ parsed.returned = "false" /\ parsed.recorded = "error")

\* C27: a save_signal that goes on to return True has written, in its record
\* write, the record of its signal_id with the fields as given, the default
\* delivery status and an expiry of idempotency_ttl_days (7) days; True is
\* returned only after that write (and the write of the recent: entry).
C27_AcceptedWritesDefaultRecord ==
    [][\A r \in Reqs :
          LET k == SignalKey(req[r].sid) IN
          /\ (req[r].pc = "set_signal" /\ req'[r].pc = "set_recent") =>
                /\ k \in DOMAIN kv'
                /\ kv'[k].ex = 7 * 24 * 60 * 60
                /\ kv'[k].value.signal_id = req[r].sid
                /\ kv'[k].value.symbol = Payload(req[r].sid).symbol
                /\ kv'[k].value.timeframe = Payload(req[r].sid).timeframe
                /\ kv'[k].value.telegram_sent = FALSE
                /\ kv'[k].value.telegram_error = Null
                /\ kv'[k].value.retry_count = 0
                /\ kv'[k].value.sent_at_utc = Null
                /\ kv'[k].value.chat_id = Null
          /\ (req[r].saved # "true" /\ req'[r].saved = "true") => req[r].pc = "set_recent"]_vars

\* C28: from a body with two signal-shaped substrings a free-text parser
\* returns at most one record, and every field of it has the value the
\* first substring gives it.
C28_FirstSignalOnly ==
    parsed.ok =>
        /\ parsed.rec.symbol = input.first.symbol
        /\ parsed.rec.signal_id = input.first.signal_id
        /\ input.first.timeframe \in {parsed.rec.timeframe, parsed.rec.tf}
        /\ \A k \in {"entry", "stop", "target", "rr"} :
               parsed.rec[k].val = input.first[k].val

\* C29: every record a free-text parser returns has a field timeframe that
\* holds the value of the text's tf, and the event EMA_BOUNCE_BUY.
C29_TimeframeAndEvent ==
    (parsed.by \in {"EmailProcessor", "EmailClient"} /\ parsed.ok) =>
        /\ parsed.rec.timeframe.present
        /\ parsed.rec.timeframe.value = input.timeframe.value
        /\ parsed.rec.event.present
        /\ parsed.rec.event.value = "EMA_BOUNCE_BUY"

\* C30: the bodies formatted from one Signal Record at different wall-clock
\* times are identical, on the webhook path and on the email path.
C30_BodyIndependentOfClock ==
    \A i, j \in DOMAIN parsed.bodies : parsed.bodies[i] = parsed.bodies[j]

\* C31: detect_quote_currency returns the first entry of its ordered list
\* that the upper-cased symbol ends with, the fallback quote when it ends
\* with none; a symbol that ends with a known quote is never classified as a
\* shorter known quote that this quote ends with.
Matching(symbol) ==
    {i \in DOMAIN quote_currencies : EndsWith(Upper(symbol), quote_currencies[i])}
C31_FirstMatchingQuote ==
    parsed.done =>
        LET found == Matching(input.symbol) IN
        /\ found = {} => parsed.quote = USDT
        /\ found # {} =>
               \E i \in found : /\ parsed.quote = quote_currencies[i]
                                /\ \A j \in found : i <= j
        /\ \A i, j \in found :
               (i # j /\ EndsWith(quote_currencies[i], quote_currencies[j]))
                   => parsed.quote # quote_currencies[j]

\* C31 witness: a symbol in lower case that ends with BUSD (and so with USD)
\* has been classified, as BUSD.
C31_Witness ==
    /\ parsed.done
    /\ input.symbol # Upper(input.symbol)
    /\ EndsWith(Upper(input.symbol), BUSD)
    /\ EndsWith(Upper(input.symbol), USD)
    /\ parsed.quote = BUSD

\* C32: while the store holds the entry of a signal_id, its telegram_sent
\* flag never goes from true back to false, and its delivery-status fields
\* change only in mark_signal_sent of a delivery of that signal_id.
Status(rec) ==
    <<rec.telegram_sent, rec.telegram_error, rec.retry_count, rec.sent_at_utc, rec.chat_id>>
C32_StatusOnlyByDelivery ==
    [][\A s \in SignalIds :
         LET k == SignalKey(s) IN
         (k \in DOMAIN kv /\ k \in DOMAIN kv') =>
             /\ kv[k].value.telegram_sent => kv'[k].value.telegram_sent
             /\ Status(kv'[k].value) # Status(kv[k].value) =>
                    \E r \in Reqs : /\ req[r].pc = "mark_set"
                                    /\ req[r].sid = s
                                    /\ req'[r].marked = "true"]_vars

\* C33: when save_signal raises DatabaseError after its lookup found no
\* entry, the store holds no record of that signal_id afterwards, also when
\* it is the write of the recent: entry that fails.
C33_RaiseLeavesNoRecord ==
    [][\A r \in Reqs :
         (req[r].saved = "none" /\ req'[r].saved = "raise"
            /\ req[r].pc \in {"set_signal", "set_recent"})
             => SignalKey(req[r].sid) \notin DOMAIN kv']_vars

\* C34: save_signal returns True only if the store holds the signal:<id>
\* record at that moment (the store not having expired it meanwhile): a
\* write answered with a non-success status is not reported as accepted.
C34_TrueOnlyIfStored ==
    [][\A r \in Reqs :
         (req[r].saved = "none" /\ req'[r].saved = "true"
            /\ SignalKey(req[r].sid) \notin expired)
             => SignalKey(req[r].sid) \in DOMAIN kv']_vars

\* C35: an entry expires no later than the retention window after the
\* accepted save_signal that created it; mark_signal_sent does not move the
\* expiry.
C35_ExpiryFromReservation ==
    parsed.entry.present => parsed.entry.expires_at <= parsed.reserved_at + TtlSeconds

\* C36: mark_signal_sent for a signal_id that has no record in the store
\* returns False and creates no record.
C36_MarkMissingReturnsFalse ==
    [][\A r \in Reqs :
         (req[r].pc = "mark_get" /\ req'[r].pc # "mark_get"
            /\ SignalKey(req[r].sid) \notin DOMAIN kv /\ req'[r].marked # "raised")
             => (req'[r].marked = "false" /\ kv' = kv)]_vars

\* C36, second half: a delivery that finishes after its entry expired does
\* not bring the entry back.
C36_ExpiredStaysGone ==
    [][\A r \in Reqs :
         (req[r].pc \in {"mark_get", "mark_set"} /\ req'[r].pc = "done"
            /\ SignalKey(req[r].sid) \in expired
            /\ SignalKey(req[r].sid) \notin DOMAIN kv)
             => SignalKey(req[r].sid) \notin DOMAIN kv']_vars

\* C37: in a poll cycle a message is flagged \Seen only if a Signal Record
\* was parsed from it: a message whose parse is rejected stays unseen (and is
\* inspected again in the next cycle).
C37_RejectedStaysUnseen ==
    [][\A m \in DOMAIN mailbox :
         (mailbox[m].parsed = "none" /\ ~mailbox[m].seen) => ~mailbox'[m].seen]_vars

\* C38: after remove_coin_pair(s) has returned True and until add_coin_pair(s)
\* succeeds, get_enabled_pairs does not contain s and a webhook submission
\* for s is rejected as disallowed, also when the store read fails.
C38_RemovedStaysDisabled ==
    /\ \A s \in parsed.removed : s \notin get_enabled_pairs_reply("ok")
    /\ parsed.check.removed => ~parsed.check.allowed

\* C39: when two add_coin_pair / remove_coin_pair calls for distinct symbols
\* have both returned True (every store round trip answered with 200), the
\* stored list reflects both changes.
C39_NoLostUpdate ==
    (/\ faults = 0
     /\ \A c \in Cmds : parsed.cmd[c].result = "true"
     /\ \A c, d \in Cmds : c # d => input.cmds[c].symbol # input.cmds[d].symbol)
        => /\ ConfigKey \in DOMAIN kv
           /\ \A c \in Cmds :
                  /\ input.cmds[c].symbol \in DOMAIN kv[ConfigKey].value
                  /\ kv[ConfigKey].value[input.cmds[c].symbol] = (input.cmds[c].op = "add")

====
